---- MODULE Spec2Model ----
(***************************************************************************)
(* Model of driver.py: a Sudoku solver that treats the board as a CSP,     *)
(* runs AC3 and, when AC3 leaves the board unresolved, backtracking search *)
(* with MRV and forward checking.                                          *)
(*                                                                         *)
(* Representation.  A Python character is a TLA+ string of length one      *)
(* ("A", "5").  A Python str is a sequence of characters, so the cell id   *)
(* "A1" is <<"A", "1">> and the domain "123" is <<"1", "2", "3">>.         *)
(* A Python list is a sequence, a set a set, a dict a function.            *)
(***************************************************************************)
EXTENDS Integers, Sequences, FiniteSets, TLC

\* Python's True, False and the str "fail" are modelled as the strings
\* "True", "False" and "fail"; "none" stands for a value not yet produced.
VARIABLES
    grid,        \* sys.argv[1], the puzzle string
    seed,        \* the process's hash seed: fixes the iteration order of sets
    pc,          \* position in __main__ / solver / AC3 / backtrack
    values,      \* csp.values: cell -> str of candidate digits
    q,           \* AC3's queue.Queue, a FIFO of arcs
    assignment,  \* backtrack's assignment dict
    stack,       \* activation records of backtrack()
    ret,         \* value returned by the backtrack() call that just returned
    ac3ret,      \* value returned by AC3()
    res,         \* the line solver() returns
    prev         \* the line an earlier run of the program on grid returned

vars == <<grid, seed, pc, values, q, assignment, stack, ret, ac3ret, res, prev>>

Range(s) == {s[i] : i \in DOMAIN s}

\* The str made of one character (what iterating a Python str yields).
Str1(c) == <<c>>

\* driver.py:5-6
rows == <<"A", "B", "C", "D", "E", "F", "G", "H", "I">>
cols == <<"1", "2", "3", "4", "5", "6", "7", "8", "9">>

\* driver.py:26-36: [x + y for x in X for y in Y]
cross(X, Y) ==
    [k \in 1..(Len(X) * Len(Y)) |->
        Str1(X[((k - 1) \div Len(Y)) + 1]) \o Str1(Y[((k - 1) % Len(Y)) + 1])]

\* driver.py:13
variables == cross(rows, cols)

(***************************************************************************)
(* A cell is identified by its position in csp.variables: cell i has the   *)
(* name variables[i], so A1 is 1 and I9 is 81.  The dicts the code keys by *)
(* cell name are functions (sequences) over Cells here.                    *)
(***************************************************************************)
Cells == DOMAIN variables

Index(name) == CHOOSE i \in Cells : variables[i] = name

\* driver.py:16-18
contraint_sets ==
    [i \in 1..9 |-> cross(rows, Str1(cols[i]))] \o
    [i \in 1..9 |-> cross(Str1(rows[i]), cols)] \o
    [k \in 1..9 |->
        cross(SubSeq(rows, 3 * ((k - 1) \div 3) + 1, 3 * ((k - 1) \div 3) + 3),
              SubSeq(cols, 3 * ((k - 1) % 3) + 1, 3 * ((k - 1) % 3) + 3))]

\* driver.py:20
sets == [s \in Cells |-> {u \in Range(contraint_sets) : variables[s] \in Range(u)}]

\* driver.py:21
neighbors ==
    [s \in Cells |->
        {Index(n) : n \in (UNION {Range(u) : u \in sets[s]}) \ {variables[s]}}]

\* driver.py:22
constraints == {a \in Cells \X Cells : a[2] \in neighbors[a[1]]}

(***************************************************************************)
(* Iteration order of Python sets.  csp.constraints and neighbors[Xi] are  *)
(* sets of str (tuples of str); the order in which a for loop visits them  *)
(* follows the string hashes, which CPython salts per process.  The model  *)
(* draws the process's salt from 0..MaxSeed; salt h visits cells in the    *)
(* order of (index * (h + 1)) mod 83, salt 0 being creation order.         *)
(***************************************************************************)
MaxSeed == 1

Seeds == 0..MaxSeed

HashKey(h, i) == (i * (h + 1)) % 83

CellOrder ==
    [h \in Seeds |->
        [k \in Cells |->
            CHOOSE i \in Cells :
                Cardinality({j \in Cells : HashKey(h, j) < HashKey(h, i)}) = k - 1]]

\* for c in S, where S is a set of cells
IterCells(S, h) == SelectSeq(CellOrder[h], LAMBDA c : c \in S)

\* for arc in S, where S is a set of pairs of cells
IterArcs(S, h) ==
    LET n == Len(variables)
        all == [k \in 1..(n * n) |->
                  <<CellOrder[h][((k - 1) \div n) + 1],
                    CellOrder[h][((k - 1) % n) + 1]>>]
    IN  SelectSeq(all, LAMBDA a : a \in S)

\* set(s) for a str s: the set of its one-character strings
CharSet(s) == {Str1(s[i]) : i \in DOMAIN s}

\* s.replace(x, "") for a one-character str x
Remove(s, x) == SelectSeq(s, LAMBDA c : Str1(c) # x)

\* driver.py:68-86
set_values(g) ==
    [i \in Cells |-> IF g[i] # "0" THEN Str1(g[i]) ELSE cols]

\* driver.py:88-103
AC_constraint_check(vals, x, Xi, Xj) ==
    \A k \in DOMAIN vals[Xj] :
        ~(Xj \in neighbors[Xi] /\ Str1(vals[Xj][k]) # x)

\* driver.py:185-202: the domain revise leaves at Xi
revise_values(vals, Xi, Xj) ==
    SelectSeq(vals[Xi], LAMBDA c : ~AC_constraint_check(vals, Str1(c), Xi, Xj))

\* driver.py:185-202: the value revise returns
revise(vals, Xi, Xj) ==
    \E x \in CharSet(vals[Xi]) : AC_constraint_check(vals, x, Xi, Xj)

\* driver.py:181: csp.neighbors[Xi] - set(Xj)
requeue_set(Xi, Xj) ==
    {k \in neighbors[Xi] : variables[k] \notin CharSet(variables[Xj])}

\* driver.py:181-182: the arcs one revision of (Xi, Xj) puts, in put order
requeue_arcs(Xi, Xj, h) ==
    LET zs == IterCells(requeue_set(Xi, Xj), h)
    IN  [k \in DOMAIN zs |-> <<zs[k], Xi>>]

(***************************************************************************)
(* The FIFO queue.Queue of AC3, stored compactly.  The arcs the seeding    *)
(* loop puts are the constant IterArcs(constraints, seed), so the queue    *)
(* keeps only how many of them were put (n) and how many of those were     *)
(* taken (pos).  The arcs one revision puts are determined by the revised  *)
(* arc, so each such batch is kept as that arc (runs), with the number of  *)
(* arcs already taken from the oldest batch (off).  Queue(qq, h) is the    *)
(* queue's content, oldest arc first.                                      *)
(***************************************************************************)
SeedArcs == [h \in Seeds |-> IterArcs(constraints, h)]

RunArcs == [h \in Seeds |-> [a \in constraints |-> requeue_arcs(a[1], a[2], h)]]

RECURSIVE Flatten(_, _)
Flatten(runs, h) ==
    IF runs = <<>> THEN <<>>
    ELSE RunArcs[h][Head(runs)] \o Flatten(Tail(runs), h)

Queue(qq, h) ==
    SubSeq(SeedArcs[h], qq.pos + 1, qq.n) \o
    (IF qq.runs = <<>> THEN <<>>
     ELSE SubSeq(RunArcs[h][Head(qq.runs)], qq.off + 1,
                 Len(RunArcs[h][Head(qq.runs)]))
          \o Flatten(Tail(qq.runs), h))

\* driver.py:173: queue.Queue()
QNew == [n |-> 0, pos |-> 0, off |-> 0, runs |-> <<>>]

\* driver.py:174-175: for arc in csp.constraints: q.put(arc)
QSeed(h) == [n |-> Len(SeedArcs[h]), pos |-> 0, off |-> 0, runs |-> <<>>]

\* driver.py:176: q.empty()
QEmpty(qq) == qq.pos = qq.n /\ qq.runs = <<>>

\* driver.py:177: the arc q.get() returns
QHead(qq, h) ==
    IF qq.pos < qq.n THEN SeedArcs[h][qq.pos + 1]
    ELSE RunArcs[h][Head(qq.runs)][qq.off + 1]

\* A q.get() that reads the head of the queue and leaves it there.
QPeek(qq, h) == qq

\* driver.py:177: the queue q.get() leaves
QGet(qq, h) ==
    IF qq.pos < qq.n THEN [qq EXCEPT !.pos = @ + 1]
    ELSE IF qq.off + 1 < Len(RunArcs[h][Head(qq.runs)])
         THEN [qq EXCEPT !.off = @ + 1]
         ELSE [qq EXCEPT !.off = 0, !.runs = Tail(@)]

\* driver.py:181-182: q.put((Xk, Xi)) for every Xk
QPutAll(qq, Xi, Xj, h) ==
    IF requeue_arcs(Xi, Xj, h) = <<>> THEN qq
    ELSE [qq EXCEPT !.runs = Append(@, <<Xi, Xj>>)]

\* driver.py:134-146
solved(vals) == \A c \in Cells : ~(Len(vals[c]) > 1)

\* driver.py:157-159: the domains of cells lo .. hi, concatenated in the
\* order of cross(rows, cols)
RECURSIVE write_range(_, _, _)
write_range(vals, lo, hi) ==
    IF lo > hi THEN <<>>
    ELSE IF lo = hi THEN vals[lo]
    ELSE write_range(vals, lo, (lo + hi) \div 2)
             \o write_range(vals, ((lo + hi) \div 2) + 1, hi)

\* driver.py:148-160
write(vals) == write_range(vals, 1, Len(cross(rows, cols)))

\* A completed() that is content with one cell still unassigned.
completed_but_one(asg) == Cardinality(DOMAIN asg) >= Len(variables) - 1

\* driver.py:123-132
completed(asg) == DOMAIN asg = {Index(n) : n \in Range(cross(rows, cols))}

\* driver.py:38-50
select_next_var(asg, vals) ==
    LET un == SelectSeq([i \in Cells |-> i], LAMBDA v : v \notin DOMAIN asg)
        k  == CHOOSE i \in DOMAIN un :
                /\ \A j \in DOMAIN un : Len(vals[un[i]]) <= Len(vals[un[j]])
                /\ \A j \in 1..(i - 1) : Len(vals[un[j]]) > Len(vals[un[i]])
    IN  un[k]

\* A forward_check that assigns Xi and prunes no neighbour.
assign_only(vals, x, Xi) == [vals EXCEPT ![Xi] = x]

\* driver.py:52-65
forward_check(vals, x, Xi) ==
    [c \in Cells |->
        IF c = Xi THEN x
        ELSE IF c \in neighbors[Xi] THEN Remove(vals[c], x)
        ELSE vals[c]]

\* driver.py:105-121
BT_constraint_check(x, Xi, asg) ==
    \A n \in neighbors[Xi] : ~(n \in DOMAIN asg /\ asg[n] = x)

\* driver.py:237: del assignment[Xi]
del(asg, Xi) == [c \in (DOMAIN asg) \ {Xi} |-> asg[c]]

\* An update that keeps the pruned domains and ignores the snapshot.
update_nothing(vals, domain) == vals

\* driver.py:238: csp.values.update(domain)
update(vals, domain) ==
    [c \in (DOMAIN vals) \cup (DOMAIN domain) |->
        IF c \in DOMAIN domain THEN domain[c] ELSE vals[c]]

\* driver.py:229: deepcopy(csp.values)
deepcopy(vals) == vals

CharRange0to9 == {"0"} \cup Range(cols)

NoCsp == <<>>
NoLine == <<>>
EmptyDict == [c \in {} |-> <<>>]
Top == stack[Len(stack)]
Pop == SubSeq(stack, 1, Len(stack) - 1)

(***************************************************************************)
(* Inputs.  Three boards, each with a list of single-cell edits of which   *)
(* at most MaxEdits are applied:                                           *)
(*   Solved81  a complete valid board; an edit blanks a cell or repeats a  *)
(*             digit inside a unit;                                        *)
(*   Rect      Solved81 with the cells A2, A7, B2, B7 blank (they hold     *)
(*             8 6 / 6 8, so that two completions exist);                  *)
(*   RowOnly   row A = 000456789 and D1 = 3, everything else blank; the    *)
(*             edits narrow A1, A2, A3 to two candidates each.             *)
(***************************************************************************)
MaxEdits == 2

Cell(r, c) == Index(<<r, c>>)

ApplyEdits(base, E) ==
    [i \in DOMAIN base |->
        IF \E e \in E : e[1] = i THEN (CHOOSE e \in E : e[1] = i)[2]
        ELSE base[i]]

Solved81 ==
    <<"4","8","3","9","2","1","6","5","7",
      "9","6","7","3","4","5","8","2","1",
      "2","5","1","8","7","6","4","9","3",
      "5","4","8","1","3","2","9","7","6",
      "7","2","9","5","6","4","1","3","8",
      "1","3","6","7","9","8","2","4","5",
      "3","7","2","6","8","9","5","1","4",
      "8","1","4","2","5","3","7","6","9",
      "6","9","5","4","1","7","3","8","2">>

Rect ==
    ApplyEdits(Solved81, {<<Cell("A", "2"), "0">>, <<Cell("A", "7"), "0">>,
                          <<Cell("B", "2"), "0">>, <<Cell("B", "7"), "0">>})

RowOnly ==
    [i \in Cells |->
        IF i \in Cell("A", "4")..Cell("A", "9") THEN cols[i]
        ELSE IF i = Cell("D", "1") THEN "3" ELSE "0"]

\* The boards with few blanks: AC3 decides most cells of them.
NearFull ==
    { [base |-> Solved81,
       edits |-> {<<Cell("A", "1"), "0">>, <<Cell("E", "6"), "6">>,
                  <<Cell("I", "9"), "0">>}],
      [base |-> Rect,
       edits |-> {<<Cell("A", "2"), "6">>, <<Cell("E", "6"), "6">>,
                  <<Cell("C", "5"), "0">>}] }

\* A board with few clues: the search has to try and undo values.
NearEmpty ==
    { [base |-> RowOnly,
       edits |-> {<<Cell("E", "2"), "2">>, <<Cell("G", "3"), "2">>,
                  <<Cell("B", "2"), "3">>}] }

Boards == NearFull \cup NearEmpty

InputsOf(B) ==
    UNION { {ApplyEdits(b.base, E) :
                E \in {X \in SUBSET b.edits : Cardinality(X) <= MaxEdits}} :
            b \in B }

Inputs == InputsOf(Boards)

Init ==
    /\ grid \in Inputs
    /\ seed \in Seeds
    /\ pc = "start"
    /\ values = NoCsp
    /\ q = QNew
    /\ assignment = EmptyDict
    /\ stack = <<>>
    /\ ret = "none"
    /\ ac3ret = "none"
    /\ res = NoLine
    /\ prev = NoLine

\* driver.py:264-267: CSP(grid); set_values reads grid[0] .. grid[80]
Construct ==
    /\ pc = "start"
    /\ IF Len(grid) < Len(variables)
       THEN /\ pc' = "IndexError"
            /\ UNCHANGED values
       ELSE /\ pc' = "AC3"
            /\ values' = set_values(grid)
    /\ UNCHANGED <<grid, seed, q, assignment, stack, ret, ac3ret, res, prev>>

\* driver.py:173-175
AC3Seed ==
    /\ pc = "AC3"
    /\ q' = QSeed(seed)
    /\ pc' = "AC3_loop"
    /\ UNCHANGED <<grid, seed, values, assignment, stack, ret, ac3ret, res, prev>>

\* driver.py:176-182: one iteration of the while loop
AC3Step ==
    /\ pc = "AC3_loop"
    /\ ~QEmpty(q)
    /\ LET Xi == QHead(q, seed)[1]
           Xj == QHead(q, seed)[2]
           new == revise_values(values, Xi, Xj)
       IN  IF revise(values, Xi, Xj)
           THEN /\ values' = [values EXCEPT ![Xi] = new]
                /\ IF Len(new) = 0
                   THEN /\ ac3ret' = "False"
                        /\ pc' = "solver"
                        /\ q' = QGet(q, seed)
                   ELSE /\ q' = QPutAll(QGet(q, seed), Xi, Xj, seed)
                        /\ UNCHANGED <<pc, ac3ret>>
           ELSE /\ q' = QGet(q, seed)
                /\ UNCHANGED <<values, pc, ac3ret>>
    /\ UNCHANGED <<grid, seed, assignment, stack, ret, res, prev>>

\* driver.py:176,183: the queue is empty
AC3Done ==
    /\ pc = "AC3_loop"
    /\ QEmpty(q)
    /\ ac3ret' = "True"
    /\ pc' = "solver"
    /\ UNCHANGED <<grid, seed, values, q, assignment, stack, ret, res, prev>>

\* driver.py:253-256
SolverCheck ==
    /\ pc = "solver"
    /\ IF solved(values)
       THEN /\ res' = write(values) \o <<" ", "A", "C", "3">>
            /\ pc' = "done"
            /\ UNCHANGED assignment
       ELSE /\ assignment' = EmptyDict
            /\ pc' = "backtrack"
            /\ UNCHANGED res
    /\ UNCHANGED <<grid, seed, values, q, stack, ret, ac3ret, prev>>

(***************************************************************************)
(* backtrack() is recursive: stack holds one record per active call, with  *)
(* the call's locals Xi, domain and the rest of the str its for loop       *)
(* iterates (iter).  entry is not in the code: it records csp.values and   *)
(* assignment as they were when the call was entered.                      *)
(***************************************************************************)

\* driver.py:230: the for loop moves to the next character
next_iter(it) == Tail(it)

\* driver.py:227-229: entry of one backtrack() call
BtEnter ==
    /\ pc = "backtrack"
    /\ IF completed(assignment)
       THEN /\ stack' = Append(stack,
                    [Xi |-> 0, domain |-> <<>>, iter |-> <<>>,
                     entry |-> <<values, assignment>>])
            /\ ret' = "True"
            /\ pc' = "bt_return"
       ELSE /\ LET Xi == select_next_var(assignment, values)
               IN  stack' = Append(stack,
                      [Xi |-> Xi, domain |-> deepcopy(values),
                       iter |-> values[Xi],
                       entry |-> <<values, assignment>>])
            /\ pc' = "bt_loop"
            /\ UNCHANGED ret
    /\ UNCHANGED <<grid, seed, values, q, assignment, ac3ret, res, prev>>

\* driver.py:230-234,239: one iteration of the for loop, or its end
BtLoop ==
    /\ pc = "bt_loop"
    /\ IF Top.iter = <<>>
       THEN /\ ret' = "fail"
            /\ pc' = "bt_return"
            /\ UNCHANGED <<stack, assignment, values>>
       ELSE LET x == Str1(Head(Top.iter))
                Xi == Top.Xi
            IN  /\ stack' = [stack EXCEPT ![Len(stack)].iter = next_iter(@)]
                /\ IF BT_constraint_check(x, Xi, assignment)
                   THEN /\ assignment' = (Xi :> x) @@ assignment
                        /\ values' = forward_check(values, x, Xi)
                        /\ pc' = "backtrack"
                   ELSE UNCHANGED <<assignment, values, pc>>
                /\ UNCHANGED ret
    /\ UNCHANGED <<grid, seed, q, ac3ret, res, prev>>

\* A backtrack() call returns ret: to its caller at driver.py:234-238, or,
\* for the outermost call, through BTS to solver at driver.py:256-257.
BtReturn ==
    /\ pc = "bt_return"
    /\ stack' = Pop
    /\ IF Len(stack) = 1
       THEN /\ res' = write(values) \o <<" ", "B", "T", "S">>
            /\ pc' = "done"
            /\ UNCHANGED <<assignment, values>>
       ELSE /\ IF ret # "fail"
               THEN UNCHANGED <<assignment, values, pc>>
               ELSE /\ assignment' = del(assignment, Pop[Len(Pop)].Xi)
                    /\ values' = update(values, Pop[Len(Pop)].domain)
                    /\ pc' = "bt_loop"
            /\ UNCHANGED res
    /\ UNCHANGED <<grid, seed, q, ret, ac3ret, prev>>

\* driver.py:261-275: the program is started again on the same argument,
\* as a new process with its own hash seed
Rerun ==
    /\ pc = "done"
    /\ prev = NoLine
    /\ prev' = res
    /\ seed' \in Seeds
    /\ pc' = "start"
    /\ values' = NoCsp
    /\ q' = QNew
    /\ assignment' = EmptyDict
    /\ stack' = <<>>
    /\ ret' = "none"
    /\ ac3ret' = "none"
    /\ res' = NoLine
    /\ UNCHANGED grid

Next ==
    \/ Construct
    \/ AC3Seed
    \/ AC3Step
    \/ AC3Done
    \/ SolverCheck
    \/ BtEnter
    \/ BtLoop
    \/ BtReturn

\* One run of the program on an 81-digit puzzle.
Spec == Init /\ [][Next]_vars

\* One run on a nearly full board, forced to proceed: the program is
\* sequential and nothing suspends it (driver.py has no blocking call).
InitNearFull ==
    /\ grid \in InputsOf(NearFull)
    /\ seed \in Seeds
    /\ pc = "start"
    /\ values = NoCsp
    /\ q = QNew
    /\ assignment = EmptyDict
    /\ stack = <<>>
    /\ ret = "none"
    /\ ac3ret = "none"
    /\ res = NoLine
    /\ prev = NoLine

FairSpec == InitNearFull /\ [][Next]_vars /\ WF_vars(Next)

NextRuns == Next \/ Rerun

\* Two runs of the program, one after the other, on the same puzzle.
SpecRuns == Init /\ [][NextRuns]_vars

(***************************************************************************)
(* Arguments that are not 81 characters over 0..9: a board cut or padded   *)
(* by up to MaxSkew characters, or holding the letter x.                   *)
(***************************************************************************)
MaxSkew == 1

Resize(base, n) == [i \in 1..n |-> IF i <= Len(base) THEN base[i] ELSE "0"]

Malformed(g) ==
    \/ Len(g) # Len(variables)
    \/ \E i \in DOMAIN g : g[i] \notin CharRange0to9

BadInputs ==
    {Resize(b, Len(b) + d) : b \in {Solved81, Rect},
                             d \in (-MaxSkew..MaxSkew) \ {0}}
    \cup {[b EXCEPT ![Cell("I", "9")] = "x"] : b \in {Solved81, Rect}}

InitInput ==
    /\ grid \in BadInputs
    /\ seed \in Seeds
    /\ pc = "start"
    /\ values = NoCsp
    /\ q = QNew
    /\ assignment = EmptyDict
    /\ stack = <<>>
    /\ ret = "none"
    /\ ac3ret = "none"
    /\ res = NoLine
    /\ prev = NoLine

\* One run of the program on a malformed argument.
SpecInput == InitInput /\ [][Next]_vars

(***************************************************************************)
(* The output line: the board text, one space, the tag.                    *)
(***************************************************************************)
TagLen == 4

\* driver.py:255,257: the text write() produced, before " AC3" or " BTS"
BoardOf(line) == SubSeq(line, 1, Len(line) - TagLen)

\* driver.py:255,257: the three letters after the space
TagOf(line) == SubSeq(line, Len(line) - TagLen + 2, Len(line))

\* A solved board: 81 digits 1..9, every one of the 27 units holds each
\* digit once.
ValidBoard(b) ==
    /\ Len(b) = Len(variables)
    /\ \A i \in DOMAIN b : b[i] \in Range(cols)
    /\ \A i \in DOMAIN contraint_sets :
          {b[Index(contraint_sets[i][k])] : k \in DOMAIN contraint_sets[i]}
              = Range(cols)

\* C1: every line the program prints carries a valid solved board: 81
\* digits 1..9 with each digit once in every row, column and box.
Validity == pc = "done" => ValidBoard(BoardOf(res))

\* C2: the line is tagged AC3 exactly when every domain AC3 leaves behind
\* holds exactly one digit; otherwise the search runs and the line is
\* tagged BTS.
TagCorrect ==
    [][/\ pc = "solver" =>
            IF \A c \in Cells : Len(values[c]) = 1
            THEN pc' = "done" /\ TagOf(res') = <<"A", "C", "3">>
            ELSE pc' = "backtrack" /\ res' = NoLine
       /\ (pc = "bt_return" /\ pc' = "done") =>
            TagOf(res') = <<"B", "T", "S">>]_vars

\* C3: every clue of the input appears unchanged at its position in the
\* printed board.
CluesKept ==
    pc = "done" =>
        \A i \in Cells :
            grid[i] # "0" => (i <= Len(BoardOf(res)) /\ res[i] = grid[i])

\* C4: two runs on the same puzzle print the same line, whatever order
\* the arcs were seeded in.
Deterministic == (pc = "done" /\ prev # NoLine) => res = prev

\* C5: an argument that is not 81 characters over 0..9 is rejected before
\* any solving: no CSP is built and no line is produced.
InputRejected ==
    Malformed(grid) =>
        /\ pc \in {"start", "InvalidInput"}
        /\ values = NoCsp
        /\ res = NoLine

\* The arcs AC3Step put on the queue: what the queue holds after the step
\* beyond what it held, less its head, before.
Enqueued(before, after, h) ==
    SubSeq(Queue(after, h), Len(Queue(before, h)), Len(Queue(after, h)))

\* C8: when revising (X, Y) shrinks X's domain and leaves it non-empty,
\* AC3 enqueues (Z, X) for every neighbour Z of X other than Y, and does
\* not enqueue (Y, X).
RequeueRule ==
    [][(/\ pc = "AC3_loop"
        /\ ~QEmpty(q)
        /\ revise(values, QHead(q, seed)[1], QHead(q, seed)[2])
        /\ revise_values(values, QHead(q, seed)[1], QHead(q, seed)[2]) # <<>>)
       => LET X == QHead(q, seed)[1]
              Y == QHead(q, seed)[2]
          IN  Range(Enqueued(q, q', seed))
                  = {<<Z, X>> : Z \in neighbors[X] \ {Y}}]_vars

(***************************************************************************)
(* The search.                                                             *)
(***************************************************************************)

\* C6: after a tentative assignment Xi = x whose recursive call returned
\* "fail" has been undone, every domain is what it was when this
\* backtrack() call was entered and Xi is not assigned; so whenever a
\* backtrack() call returns "fail", the domains and the assignment are
\* those of its entry.
RollbackCorrect ==
    /\ pc = "bt_loop" =>
          /\ values = Top.entry[1]
          /\ assignment = Top.entry[2]
          /\ Top.Xi \notin DOMAIN assignment
    /\ (pc = "bt_return" /\ ret = "fail") =>
          /\ values = Top.entry[1]
          /\ assignment = Top.entry[2]

\* A backtrack() call returns "fail" after it tried, and undid, at least
\* one value of its cell.
RollbackSeen ==
    /\ pc = "bt_return"
    /\ ret = "fail"
    /\ Top.Xi \in Cells
    /\ Top.entry[1][Top.Xi] # <<>>

\* The cells, those with the fewest candidates first.
CellsBySize(dom) ==
    [k \in Cells |->
        CHOOSE c \in Cells :
            Cardinality({d \in Cells :
                \/ Len(dom[d]) < Len(dom[c])
                \/ Len(dom[d]) = Len(dom[c]) /\ d < c}) = k - 1]

\* f, which gives digits to ord[1] .. ord[k-1], extends to all the cells,
\* each cell's digit from dom and different from its neighbours' digits.
RECURSIVE Extends(_, _, _, _)
Extends(dom, ord, k, f) ==
    IF k > Len(ord) THEN TRUE
    ELSE \E i \in DOMAIN dom[ord[k]] :
            /\ \A n \in neighbors[ord[k]] \cap DOMAIN f :
                  f[n] # dom[ord[k]][i]
            /\ Extends(dom, ord, k + 1, (ord[k] :> dom[ord[k]][i]) @@ f)

\* Some full assignment picks each cell's digit from dom and gives
\* different digits to neighbours.
HasSolution(dom) == Extends(dom, CellsBySize(dom), 1, EmptyDict)

\* vals is such an assignment: one digit per cell, taken from dom.
IsSolution(vals, dom) ==
    \A c \in Cells :
        /\ Len(vals[c]) = 1
        /\ vals[c][1] \in Range(dom[c])
        /\ \A n \in neighbors[c] : vals[n] # vals[c]

\* C7: BTS returns True or "fail".  When it returns True every cell is
\* assigned, its domain is the assigned digit, the digit comes from the
\* cell's domain at entry to BTS and no two neighbours hold the same digit
\* (so an assignment of that kind exists); when it returns "fail" no
\* such assignment exists.
SearchSoundComplete ==
    (pc = "bt_return" /\ Len(stack) = 1) =>
        /\ ret \in {"True", "fail"}
        /\ ret = "True" =>
              /\ DOMAIN assignment = Cells
              /\ \A c \in Cells : values[c] = assignment[c]
              /\ IsSolution(values, stack[1].entry[1])
        /\ ret = "fail" => ~HasSolution(stack[1].entry[1])

\* BTS returns True on a board AC3 left with undecided cells.
SearchSucceeded ==
    /\ pc = "bt_return"
    /\ Len(stack) = 1
    /\ ret = "True"
    /\ \E c \in Cells : Len(stack[1].entry[1][c]) > 1

ForwardCheckInv ==
    /\ pc = "backtrack" =>
          /\ \A c \in DOMAIN assignment : values[c] = assignment[c]
          /\ \A c \in Cells \ DOMAIN assignment :
                \A n \in neighbors[c] \cap DOMAIN assignment :
                    assignment[n][1] \notin Range(values[c])
          /\ (\E c \in Cells \ DOMAIN assignment : values[c] = <<>>) =>
                values[select_next_var(assignment, values)] = <<>>
    /\ (pc = "bt_loop" /\ Top.iter # <<>>) =>
          BT_constraint_check(Str1(Head(Top.iter)), Top.Xi, assignment)
    /\ (pc = "bt_loop" /\ values[Top.Xi] = <<>>) => Top.iter = <<>>

\* backtrack() is entered after forward checking emptied a domain.
EmptiedByForwardCheck ==
    /\ pc = "backtrack"
    /\ assignment # EmptyDict
    /\ \E c \in Cells \ DOMAIN assignment :
          values[c] = <<>> /\ stack[1].entry[1][c] # <<>>

====
